---- MODULE Spec2Model ----
(***************************************************************************)
(* A state-machine model of the investment-be backtest service: the two    *)
(* pipelines run_backtest_api (app/run_backtest.py) and specific_backtest  *)
(* (app/specific_backtest.py), the DataLoader they share                   *)
(* (backtest/data_loader.py), and the request validation of POST           *)
(* /condition (app/condition.py).                                          *)
(*                                                                         *)
(* Strings of the source that are not ASCII (the Korean messages and the   *)
(* investment style names) are written as their English rendering.         *)
(***************************************************************************)
EXTENDS Integers, Sequences, FiniteSets, TLC

(***************************************************************************)
(* Bounds of the model.                                                    *)
(***************************************************************************)
\* Trading dates are 1..MaxDate.
MaxDate == 2
\* The largest n_stock a request carries (the smallest is -1).
MaxNStock == 2

Dates == 1 .. MaxDate

\* Python's None.
None == [none |-> TRUE]

\* The two pipeline runs that may be in flight at once.
Runs == {"r1", "r2"}

(***************************************************************************)
(* Small helpers.                                                          *)
(***************************************************************************)
Range(s) == {s[i] : i \in DOMAIN s}

Min(a, b) == IF a <= b THEN a ELSE b

(***************************************************************************)
(* The stock_analysis table, in storage order.  liquidity is in won; the   *)
(* other attributes are percentages.                                       *)
(***************************************************************************)
StockA == [code |-> "005930", name |-> "Samsung", annual_return |-> 12,
           volatility |-> 25, dividend_yield |-> 3, liquidity |-> 900000000]
StockB == [code |-> "005380", name |-> "Hyundai", annual_return |-> 20,
           volatility |-> 35, dividend_yield |-> 5, liquidity |-> 300000000]
StockC == [code |-> "005490", name |-> "Posco", annual_return |-> 30,
           volatility |-> 12, dividend_yield |-> 6, liquidity |-> 50000000]

stock_analysis == <<StockA, StockB, StockC>>

Codes == {stock_analysis[i].code : i \in DOMAIN stock_analysis}

(***************************************************************************)
(* SQL: WHERE ... ORDER BY annual_return DESC LIMIT :limit, as SQLite      *)
(* evaluates it (run_backtest_api's db_path is a SQLite file).             *)
(***************************************************************************)
\* WHERE dividend_yield >= :min_dividend AND liquidity >= :min_liquidity
\*   AND volatility <= :max_volatility
Where(row, min_dividend, min_liquidity_won, max_volatility) ==
    /\ row.dividend_yield >= min_dividend
    /\ row.liquidity >= min_liquidity_won
    /\ row.volatility <= max_volatility

\* Insert row into a sequence sorted by annual_return descending, after the
\* rows of equal annual_return (ties keep storage order).
RECURSIVE InsertDesc(_, _)
InsertDesc(row, sorted) ==
    IF sorted = <<>> THEN <<row>>
    ELSE IF Head(sorted).annual_return >= row.annual_return
         THEN <<Head(sorted)>> \o InsertDesc(row, Tail(sorted))
         ELSE <<row>> \o sorted

\* ORDER BY annual_return DESC
RECURSIVE OrderByAnnualReturnDesc(_)
OrderByAnnualReturnDesc(rows) ==
    IF rows = <<>> THEN <<>>
    ELSE InsertDesc(rows[Len(rows)],
                    OrderByAnnualReturnDesc(SubSeq(rows, 1, Len(rows) - 1)))

\* LIMIT n: SQLite puts no upper bound on the rows when n is negative.
Limit(rows, n) ==
    IF n < 0 THEN rows ELSE SubSeq(rows, 1, Min(n, Len(rows)))

\* What a call returns or raises.
Return(v) == [raised |-> FALSE, value |-> v]
Raise(e) == [raised |-> TRUE, error |-> e]

\* DataLoader._load_db_data
_load_db_data(limit, min_dividend, min_liquidity, max_volatility) ==
    LET df == Limit(OrderByAnnualReturnDesc(
                        SelectSeq(stock_analysis,
                                  LAMBDA row : Where(row, min_dividend,
                                                     min_liquidity * 1000000,
                                                     max_volatility))),
                    limit)
    IN  IF df = <<>> THEN Raise("ValueError: no stock satisfies the conditions")
        ELSE Return(df)

(***************************************************************************)
(* Strings the code takes apart are sequences: a date is its characters, a *)
(* database path its pieces (a scheme prefix, "/", a name, ".db").         *)
(***************************************************************************)
Digit(d) == CASE d = 0 -> "0" [] d = 1 -> "1" [] d = 2 -> "2" [] d = 3 -> "3"
              [] d = 4 -> "4" [] d = 5 -> "5" [] d = 6 -> "6" [] d = 7 -> "7"
              [] d = 8 -> "8" [] d = 9 -> "9"

\* str(n) for n >= 0
RECURSIVE Decimal(_)
Decimal(n) == IF n < 10 THEN <<Digit(n)>>
              ELSE Decimal(n \div 10) \o <<Digit(n % 10)>>

\* f"{n}" and f"{n:02d}"
Format(n) == IF n < 0 THEN <<"-">> \o Decimal(-n) ELSE Decimal(n)
Format02d(n) == IF Len(Format(n)) < 2 THEN <<"0">> \o Format(n) ELSE Format(n)

\* calendar.isleap and the day count of calendar.monthrange
isleap(year) == year % 4 = 0 /\ (year % 100 # 0 \/ year % 400 = 0)
monthrange(year, month) ==
    IF month = 2 THEN (IF isleap(year) THEN 29 ELSE 28)
    ELSE IF month \in {4, 6, 9, 11} THEN 30 ELSE 31

\* calendar.monthrange raises IllegalMonthError for a month outside 1..12.
IllegalMonthError(month) == month < 1 \/ month > 12

\* get_end_date
get_end_date(year, month) ==
    Format(year) \o <<"-">> \o Format02d(month) \o <<"-">>
        \o Format02d(monthrange(year, month))

\* f"{start_year}-{start_month:02d}-01"
StartDate(year, month) ==
    Format(year) \o <<"-">> \o Format02d(month) \o <<"-", "0", "1">>

\* The default window of both pipelines, "2020-01-01" to "2023-12-31".
DefaultStartDate == <<"2", "0", "2", "0", "-", "0", "1", "-", "0", "1">>
DefaultEndDate == <<"2", "0", "2", "3", "-", "1", "2", "-", "3", "1">>

\* run_backtest_api's default db_path, "data/stock_data.db"
RunBacktestDbPath == <<"data", "/", "stock_data", ".db">>
\* specific_backtest's default db_path,
\* "/Users/daeun/toyproject/stock_investment/data/stock_data.db"
SpecificBacktestDbPath ==
    <<"/", "Users", "/", "daeun", "/", "toyproject", "/", "stock_investment",
      "/", "data", "/", "stock_data", ".db">>

startswith(s, prefix) ==
    Len(s) >= Len(prefix) /\ SubSeq(s, 1, Len(prefix)) = prefix
endswith(s, suffix) ==
    Len(s) >= Len(suffix) /\ SubSeq(s, Len(s) - Len(suffix) + 1, Len(s)) = suffix
\* Python's `part in s`
contains(s, part) ==
    \E i \in 1 .. Len(s) : startswith(SubSeq(s, i, Len(s)), part)

\* os.getenv("DATABASE_URL") or os.getenv("DB_PATH"): unset here, the
\* pipelines always pass a db_path.
Getenv == <<>>

(***************************************************************************)
(* DataLoader.__init__: the db_path it keeps, or the error it raises.      *)
(***************************************************************************)
DataLoaderInit(db_path) ==
    LET p == IF db_path # <<>> THEN db_path ELSE Getenv
    IN  IF p = <<>> THEN Raise("ValueError: no db_path")
        ELSE IF startswith(p, <<"postgresql://">>) THEN Return([db_path |-> p])
        ELSE IF endswith(p, <<".db">>) \/ startswith(p, <<"/">>)
             THEN Return([db_path |-> <<"sqlite:///">> \o p])
        ELSE IF startswith(p, <<"sqlite:///">>) THEN Return([db_path |-> p])
        ELSE Raise("ValueError: unsupported db path")

\* The db_path arguments a caller constructs a DataLoader with: relative and
\* absolute file paths, database URLs, URLs this class does not know, and
\* none at all.
DbPaths ==
    {RunBacktestDbPath,
     SpecificBacktestDbPath,
     <<"/", "var", "/", "stock_data">>,
     <<"data", "/", "stock_data">>,
     <<"sqlite:///", "data", "/", "stock_data", ".db">>,
     <<"sqlite:///", "data", "/", "stock_data">>,
     <<"sqlite:///", "/", "var", "/", "stock_data", ".db">>,
     <<"postgresql://", "host", "/", "stocks">>,
     <<"postgresql://", "host", "/", "stocks", ".db">>,
     <<"mysql://", "host", "/", "stocks">>,
     <<>>}

OfferedDbPaths(which) ==
    IF which = "any" THEN DbPaths ELSE {RunBacktestDbPath}

\* The methods class DataLoader defines.
DataLoaderMethods ==
    {"__init__", "load_stock_data", "_load_specific_stocks", "_load_db_data",
     "_fetch_stock_price", "_fetch_benchmark_data"}

(***************************************************************************)
(* What the price source (fdr.DataReader) answers for a code: it raises,   *)
(* or gives a frame whose Close column holds a price or a missing value on *)
(* each date of its index; a frame may also lack the Close column.        *)
(***************************************************************************)
Frame(index, has_close, close) ==
    [kind |-> "frame", index |-> index, has_close |-> has_close, Close |-> close]
DataReaderRaises ==
    [kind |-> "raise", index |-> {}, has_close |-> FALSE, Close |-> <<>>]
NoneFrame ==
    [kind |-> "None", index |-> {}, has_close |-> FALSE, Close |-> <<>>]
Unasked ==
    [kind |-> "unasked", index |-> {}, has_close |-> FALSE, Close |-> <<>>]

DataReaderAnswers ==
    {DataReaderRaises}
        \cup UNION {{Frame(D, TRUE, f) : f \in [D -> {"px", "NaN"}]} :
                    D \in SUBSET Dates}
        \cup {Frame(Dates, FALSE, <<>>)}

\* What the index source (pykrx get_index_ohlcv_by_date) answers.
KospiAnswers == {"data", "empty", "raise"}

\* The answers explored when two runs overlap.
FewDataReaderAnswers ==
    {DataReaderRaises,
     Frame(Dates, TRUE, [d \in Dates |-> "px"]),
     Frame({1}, TRUE, [d \in {1} |-> "px"])}
FewKospiAnswers == {"data", "empty"}

PriceAnswers(which) ==
    IF which = "any" THEN DataReaderAnswers ELSE FewDataReaderAnswers
IndexAnswers(which) ==
    IF which = "any" THEN KospiAnswers ELSE FewKospiAnswers

\* DataLoader._fetch_stock_price: an exception of the source becomes None.
_fetch_stock_price(answer) ==
    IF answer.kind = "raise" THEN NoneFrame ELSE answer

\* The test of load_stock_data's loop on one fetched frame:
\*   df is not None and not df.empty and not df["Close"].isna().any()
\* where df["Close"] raises KeyError on a frame without that column, which
\* the loop's except clause swallows.
KeepsFrame(df) ==
    /\ df.kind # "None"
    /\ df.index # {}
    /\ df.has_close
    /\ \A d \in df.index : df.Close[d] # "NaN"

\* ValidStocks, with one bad frame failing the whole load instead of being
\* skipped.
ValidStocksAllOrNothing(stock_data, answers) ==
    LET codes == {stock_data[i].code : i \in DOMAIN stock_data}
        kept == IF \A c \in codes : KeepsFrame(_fetch_stock_price(answers[c]))
                THEN codes ELSE {}
    IN  [c \in kept |-> answers[c].Close]

\* valid_stocks after the loop: code -> Close series, for the rows kept.
ValidStocks(stock_data, answers) ==
    LET kept == {stock_data[i].code : i \in
                    {j \in DOMAIN stock_data :
                        KeepsFrame(_fetch_stock_price(answers[stock_data[j].code]))}}
    IN  [c \in kept |-> answers[c].Close]

\* pd.DataFrame(valid_stocks): one column per code over the union of the
\* series' indexes; a date a series does not cover is a missing value.
DataFrame(valid_stocks) ==
    LET index == UNION {DOMAIN valid_stocks[c] : c \in DOMAIN valid_stocks}
    IN  [index |-> index,
         columns |-> DOMAIN valid_stocks,
         at |-> [c \in DOMAIN valid_stocks |->
                    [d \in index |-> IF d \in DOMAIN valid_stocks[c]
                                     THEN valid_stocks[c][d] ELSE "NaN"]]]

\* StockInfo, with the candidate rows stored unfiltered.
StockInfoUnfiltered(stock_data, valid_stocks) == [rows |-> stock_data]

\* stock_data[stock_data["code"].isin(valid_stocks.keys())]
StockInfo(stock_data, valid_stocks) ==
    [rows |-> SelectSeq(stock_data, LAMBDA row : row.code \in DOMAIN valid_stocks)]

\* _fetch_benchmark_data, without the check of an empty answer.
_fetch_benchmark_data_unchecked(answer) ==
    IF answer = "raise" THEN Raise("benchmark source failed")
    ELSE Return([index |-> IF answer = "data" THEN Dates ELSE {}])

\* DataLoader._fetch_benchmark_data
_fetch_benchmark_data(answer) ==
    IF answer = "raise" THEN Raise("benchmark source failed")
    ELSE IF answer = "empty" THEN Raise("ValueError: no benchmark data")
    ELSE Return([index |-> Dates])

\* DataLoader._load_specific_stocks: self.engine is always set, so the
\* SQLAlchemy branch runs: WHERE code IN (:code_0, ...).
_load_specific_stocks(stock_codes) ==
    LET df == SelectSeq(stock_analysis, LAMBDA row : row.code \in Range(stock_codes))
    IN  IF df = <<>> THEN Raise("ValueError: no data for the given codes")
        ELSE Return(df)

\* The first lines of load_stock_data: the loader after them and the rows
\* selected (or the error raised).
SelectStockData(loader, a) ==
    IF a.stock_codes # <<>>
    THEN [loader |-> IF contains(loader.db_path, <<"/", "Users", "/">>)
                     THEN [loader EXCEPT !.db_path = SpecificBacktestDbPath]
                     ELSE loader,
          stock_data |-> _load_specific_stocks(a.stock_codes)]
    ELSE [loader |-> loader,
          stock_data |-> _load_db_data(a.n_stocks, a.min_dividend,
                                       a.min_liquidity, a.max_volatility)]

\* The rest of load_stock_data, from the loop on: the portfolio after it and
\* whether it raised.  stock_prices and stock_info are assigned before the
\* benchmark is fetched.
StorePrices(portfolio, stock_data, answers, kospi_answer) ==
    LET valid_stocks == ValidStocks(stock_data, answers)
        stored == [portfolio EXCEPT
                      !.stock_prices = DataFrame(valid_stocks),
                      !.stock_info = StockInfo(stock_data, valid_stocks)]
        bench == _fetch_benchmark_data(kospi_answer)
    IN  IF DOMAIN valid_stocks = {}
        THEN [raised |-> TRUE, error |-> "ValueError: no valid price data",
              portfolio |-> portfolio]
        ELSE IF bench.raised
        THEN [raised |-> TRUE, error |-> bench.error, portfolio |-> stored]
        ELSE [raised |-> FALSE, error |-> "",
              portfolio |-> [stored EXCEPT !.benchmark = bench.value]]

(***************************************************************************)
(* POST /condition (app/condition.py): the validation of a Condition.      *)
(***************************************************************************)
START_YEAR == 1966
\* datetime.now().year
current_year == 2026

HTTPException(status_code, detail) ==
    [status_code |-> status_code, detail |-> detail]

\* StyleLimits, with the middle style's pair as the fallback of a chain of
\* comparisons that ends in a plain else.
StyleLimitsDefaulting(investment_style) ==
    CASE investment_style = "aggressive" ->
            [max_volatility |-> 15, target_return |-> 6]
      [] investment_style = "active" ->
            [max_volatility |-> 10, target_return |-> 5]
      [] investment_style = "risk-averse" ->
            [max_volatility |-> 3, target_return |-> 3]
      [] investment_style = "safety-seeking" ->
            [max_volatility |-> 1, target_return |-> 2]
      [] OTHER -> [max_volatility |-> 7, target_return |-> 4]

\* max_volatility and target_return of an investment style, None for a
\* style the handler does not know.
StyleLimits(investment_style) ==
    CASE investment_style = "aggressive" ->
            [max_volatility |-> 15, target_return |-> 6]
      [] investment_style = "active" ->
            [max_volatility |-> 10, target_return |-> 5]
      [] investment_style = "risk-neutral" ->
            [max_volatility |-> 7, target_return |-> 4]
      [] investment_style = "risk-averse" ->
            [max_volatility |-> 3, target_return |-> 3]
      [] investment_style = "safety-seeking" ->
            [max_volatility |-> 1, target_return |-> 2]
      [] OTHER -> None

create_condition(request) ==
    LET p == request.backtesting_period
        limits == StyleLimits(request.investment_style)
    IN  IF request.n_stock <= 0
        THEN HTTPException(400, "Select the number of stocks.")
        ELSE IF request.min_dividend <= 0
        THEN HTTPException(400, "Enter the dividend yield.")
        ELSE IF limits = None
        THEN HTTPException(400, "Select the investment style.")
        ELSE IF p.start_year <= 0
        THEN HTTPException(400, "Enter the start year.")
        ELSE IF p.start_year < START_YEAR \/ p.end_year > current_year
        THEN HTTPException(400, "The start year is not valid.")
        ELSE IF p.start_month < 1 \/ p.start_month > 12
        THEN HTTPException(400, "The start month must be between 1 and 12.")
        ELSE IF p.end_year <= 0
        THEN HTTPException(400, "Enter the end year.")
        ELSE IF p.end_year < p.start_year
        THEN HTTPException(400, "The end year must be after the start year.")
        ELSE IF p.end_year < START_YEAR \/ p.end_year > current_year
        THEN HTTPException(400, "The end year is not valid.")
        ELSE IF p.end_year = p.start_year /\ p.end_month < p.start_month
        THEN HTTPException(400, "The end month must be after the start month.")
        ELSE IF p.end_month < 1 \/ p.end_month > 12
        THEN HTTPException(400, "The end month must be between 1 and 12.")
        ELSE [status_code |-> 200,
              condition |-> request,
              max_volatility |-> limits.max_volatility,
              target_return |-> limits.target_return]

(***************************************************************************)
(* The requests clients send.                                              *)
(***************************************************************************)
Period(start_year, start_month, end_year, end_month) ==
    [start_year |-> start_year, start_month |-> start_month,
     end_year |-> end_year, end_month |-> end_month]

\* POST /condition takes any Condition pydantic can parse: the years around
\* START_YEAR and the current year, the months around 1 and 12.
Years == {0, START_YEAR - 1, START_YEAR, current_year, current_year + 1}
Months == {0, 1, 12, 13}
Styles ==
    {"aggressive", "active", "risk-neutral", "risk-averse", "safety-seeking"}

Conditions ==
    [n_stock : {0, 1},
     min_dividend : {0, 3},
     investment_style : Styles \cup {"unknown"},
     backtesting_period : [start_year : Years, start_month : Months,
                           end_year : Years, end_month : Months]]

ConditionRequests == [kind : {"condition"}, condition : Conditions]

\* The POST /condition requests in flight when two runs overlap.
FewConditionRequests ==
    {request \in ConditionRequests :
        /\ request.condition.n_stock = 1
        /\ request.condition.min_dividend = 3
        /\ request.condition.investment_style = "aggressive"
        /\ request.condition.backtesting_period
              \in {Period(START_YEAR, 1, current_year, 12),
                   Period(START_YEAR, 1, current_year + 1, 12)}}

OfferedConditions(which) ==
    IF which = "any" THEN ConditionRequests ELSE FewConditionRequests

\* POST /run-backtest takes any BacktestRequest pydantic can parse.
BacktestRequests ==
    [kind : {"run-backtest"},
     condition : [n_stock : -1 .. MaxNStock,
                  min_dividend : {0, 3, 4},
                  investment_style : {"aggressive", "unknown"},
                  backtesting_period : {Period(2020, 1, 2023, 12),
                                        Period(2023, 6, 2020, 13)}],
     max_volatility : {30, 40},
     target_return : {6}]

\* POST /specific-backtest takes an InputBacktestRequest.
InputBacktestRequests ==
    [kind : {"specific-backtest"},
     stock_names : {<<"Samsung">>, <<"Samsung", "Kakao">>},
     backtesting_period : [start_year : {999, 2023},
                           start_month : {1, 11},
                           end_year : {1900, 2000, 2023, 2024},
                           end_month : 1 .. 13]]

Requests == BacktestRequests \cup InputBacktestRequests

\* The requests in flight when two runs overlap.
FewRequests ==
    {request \in BacktestRequests :
        /\ request.condition.n_stock \in {-1, 1}
        /\ request.condition.min_dividend = 3
        /\ request.condition.investment_style = "aggressive"
        /\ request.condition.backtesting_period = Period(2020, 1, 2023, 12)
        /\ request.max_volatility = 40}
        \cup {request \in InputBacktestRequests :
                 /\ Len(request.stock_names) = 1
                 /\ request.backtesting_period = Period(2023, 11, 2024, 2)}

Offered(which) == IF which = "any" THEN Requests ELSE FewRequests

\* RunBacktestArgs, with the window taken from the request's period the way
\* POST /specific-backtest takes it.
RunBacktestArgsWithPeriod(request) ==
    [initial_capital |-> 100000000,
     start_date |-> StartDate(request.condition.backtesting_period.start_year,
                              request.condition.backtesting_period.start_month),
     end_date |-> get_end_date(request.condition.backtesting_period.end_year,
                               request.condition.backtesting_period.end_month),
     n_stocks |-> request.condition.n_stock,
     stock_codes |-> <<>>,
     min_dividend |-> request.condition.min_dividend,
     min_liquidity |-> 100,
     max_volatility |-> request.max_volatility,
     min_weight |-> 5,
     max_weight |-> 90,
     target_return |-> request.target_return,
     risk_free_rate |-> 3,
     db_path |-> RunBacktestDbPath]

\* The endpoint run_backtest of app/run_backtest.py: the arguments it calls
\* run_backtest_api with (those it does not pass keep their defaults;
\* fractions are in percent).
RunBacktestArgs(request) ==
    [initial_capital |-> 100000000,
     start_date |-> DefaultStartDate,
     end_date |-> DefaultEndDate,
     n_stocks |-> request.condition.n_stock,
     stock_codes |-> <<>>,
     min_dividend |-> request.condition.min_dividend,
     min_liquidity |-> 100,
     max_volatility |-> request.max_volatility,
     min_weight |-> 5,
     max_weight |-> 90,
     target_return |-> request.target_return,
     risk_free_rate |-> 3,
     db_path |-> RunBacktestDbPath]

\* The endpoint run_backtest of app/specific_backtest.py: the arguments it
\* calls specific_backtest with.
SpecificBacktestArgs(request) ==
    [stock_names |-> request.stock_names,
     initial_capital |-> 100000000,
     start_date |-> StartDate(request.backtesting_period.start_year,
                              request.backtesting_period.start_month),
     end_date |-> get_end_date(request.backtesting_period.end_year,
                               request.backtesting_period.end_month),
     min_weight |-> 5,
     max_weight |-> 90,
     target_return |-> 5,
     risk_free_rate |-> 3,
     db_path |-> SpecificBacktestDbPath]

EndpointArgs(request) ==
    IF request.kind = "run-backtest" THEN RunBacktestArgs(request)
    ELSE SpecificBacktestArgs(request)

(***************************************************************************)
(* The stages whose code is outside the files at hand (Portfolio,          *)
(* PortfolioOptimizer, BacktestEngine, BacktestVisualizer): what they      *)
(* leave behind when they return.  Numbers and images are not computed.    *)
(***************************************************************************)
Float == "float"
Base64 == "base64"

\* Portfolio(initial_capital, start_date, end_date)
Portfolio(initial_capital, start_date, end_date) ==
    [initial_capital |-> initial_capital, start_date |-> start_date,
     end_date |-> end_date, stock_prices |-> None, stock_info |-> None,
     benchmark |-> None, weights |-> None]

\* PortfolioOptimizer.optimize(portfolio): a weight for every price column.
Optimized(portfolio) ==
    [portfolio EXCEPT
        !.weights = [by_code |-> [c \in portfolio.stock_prices.columns |-> Float]]]

\* BacktestEngine(portfolio).run(): the two value series.
BacktestResults(portfolio) ==
    [portfolio_values |-> [d \in portfolio.stock_prices.index |-> Float],
     benchmark_values |-> [d \in portfolio.benchmark.index |-> Float]]

\* BacktestVisualizer(portfolio).generate_results(backtest_results)
GenerateResults(portfolio, backtest_results) ==
    [metrics |->
        [portfolio |->
            [composition |->
                [i \in DOMAIN portfolio.stock_info.rows |->
                    [code |-> portfolio.stock_info.rows[i].code,
                     name |-> portfolio.stock_info.rows[i].name,
                     weight |-> Float,
                     dividend_yield |-> portfolio.stock_info.rows[i].dividend_yield]],
             final_value |-> Float, total_return |-> Float,
             annual_volatility |-> Float, sharpe_ratio |-> Float,
             max_drawdown |-> Float, win_rate |-> Float],
         benchmark |->
            [final_value |-> Float, total_return |-> Float,
             annual_volatility |-> Float],
         individual_stocks |->
            [i \in DOMAIN portfolio.stock_info.rows |->
                [code |-> portfolio.stock_info.rows[i].code,
                 name |-> portfolio.stock_info.rows[i].name,
                 return |-> Float,
                 volatility |-> Float]]],
     visualizations |->
        [value_changes |-> Base64, composition |-> Base64,
         risk_return |-> Base64]]

(***************************************************************************)
(* app/schemas.py and the construction of the response.                   *)
(***************************************************************************)
\* PortfolioComposition(**stock)
PortfolioComposition(stock) ==
    [code |-> stock.code, name |-> stock.name, weight |-> stock.weight,
     dividend_yield |-> stock.dividend_yield]

\* IndividualStockPerformance(code=, name=, return_=stock["return"], volatility=)
IndividualStockPerformance(stock) ==
    [code |-> stock.code, name |-> stock.name, return_ |-> stock.return,
     volatility |-> stock.volatility]

\* BacktestResponse(portfolio=..., benchmark=..., individual_stocks=...,
\*                  visualizations=...)
BacktestResponse(results) ==
    [portfolio |->
        [composition |->
            [i \in DOMAIN results.metrics.portfolio.composition |->
                PortfolioComposition(results.metrics.portfolio.composition[i])],
         final_value |-> results.metrics.portfolio.final_value,
         total_return |-> results.metrics.portfolio.total_return,
         annual_volatility |-> results.metrics.portfolio.annual_volatility,
         sharpe_ratio |-> results.metrics.portfolio.sharpe_ratio,
         max_drawdown |-> results.metrics.portfolio.max_drawdown,
         win_rate |-> results.metrics.portfolio.win_rate],
     benchmark |->
        [final_value |-> results.metrics.benchmark.final_value,
         total_return |-> results.metrics.benchmark.total_return,
         annual_volatility |-> results.metrics.benchmark.annual_volatility],
     individual_stocks |->
        [i \in DOMAIN results.metrics.individual_stocks |->
            IndividualStockPerformance(results.metrics.individual_stocks[i])],
     visualizations |->
        [value_changes |-> results.visualizations.value_changes,
         composition |-> results.visualizations.composition,
         risk_return |-> results.visualizations.risk_return]]

\* ErrorResult, with the metrics dictionary handed back as far as it got.
ErrorResultPartial(e) ==
    [error |-> e,
     metrics |-> [portfolio |-> None, benchmark |-> None,
                  individual_stocks |-> <<>>],
     visualizations |-> None]

\* The except clause of both pipelines:
\*   return {"error": str(e), "metrics": None, "visualizations": None}
ErrorResult(e) == [error |-> e, metrics |-> None, visualizations |-> None]

(***************************************************************************)
(* The name lookup of specific_backtest (lines 42 to 73).                  *)
(***************************************************************************)
\* SELECT code, name, dividend_yield, liquidity FROM stock_analysis
\*   WHERE name IN (...)
SelectByName(stock_names) ==
    SelectSeq(stock_analysis, LAMBDA row : row.name \in Range(stock_names))

\* The codes to load, or the error raised.
ResolveStockNames(loader, a) ==
    IF "get_db_path" \notin DataLoaderMethods
    THEN Raise("AttributeError: 'DataLoader' object has no attribute 'get_db_path'")
    ELSE IF ~ contains(loader.db_path, <<"/", "Users", "/">>)
            /\ ~ contains(loader.db_path, <<"postgresql://">>)
    THEN Raise("UnboundLocalError: query")
    ELSE LET stock_data == SelectByName(a.stock_names)
         IN  IF Len(stock_data) # Len(a.stock_names)
             THEN [raised |-> TRUE,
                   error |-> "ValueError: these stocks cannot be found",
                   missing_stocks |->
                       Range(a.stock_names)
                           \ {stock_data[i].name : i \in DOMAIN stock_data}]
             ELSE Return([i \in DOMAIN stock_data |-> stock_data[i].code])

(***************************************************************************)
(* What an endpoint answers: the value its handler returns, or the         *)
(* exception it raises.                                                    *)
(***************************************************************************)
Returns(body) == [kind |-> "return", body |-> body]
Raises(exception) == [kind |-> "raise", exception |-> exception]

\* The detail both backtest endpoints give their HTTPException.
BacktestFailed == <<"An error occurred while running the backtest">>

\* bool(response_data): None is false; a non-empty dict and a BacktestResponse
\* are true.
Truthy(response_data) ==
    response_data # None /\ DOMAIN response_data # {}

\* The end of both endpoints:
\*   if response_data: return response_data
\*   else: raise HTTPException(status_code=500, detail=...)
\* In app/specific_backtest.py this is inside try ... except Exception as e,
\* which raises HTTPException(500) anew with str(e) added to the detail.
EndpointResponse(request, response_data) ==
    IF Truthy(response_data) THEN Returns(response_data)
    ELSE IF request.kind = "run-backtest"
    THEN Raises(HTTPException(500, BacktestFailed \o <<".">>))
    ELSE Raises(HTTPException(500, BacktestFailed \o <<": ", "500: ">>
                                       \o BacktestFailed \o <<".">>))

(***************************************************************************)
(* State.                                                                  *)
(***************************************************************************)
VARIABLES
    workers,     \* the runs the server can carry
    clients,     \* which requests clients send: "any" or "few"
    sources,     \* which answers the data sources give: "any" or "few"
    feed,        \* code -> what the price source answers (once asked)
    kospi,       \* what the index source answers (once asked)
    portfolios,  \* the Portfolio objects created so far
    loaders,     \* the DataLoader objects created so far
    run          \* run -> the locals of its pipeline call

vars == <<workers, clients, sources, feed, kospi, portfolios, loaders, run>>

\* The stages of a pipeline, in the order the code calls them.
Pipeline == <<"load", "optimize", "engine", "results", "response">>

Idle ==
    [pc |-> "idle", request |-> None, args |-> None, portfolio |-> 0,
     data_loader |-> 0, stock_codes |-> <<>>, trace |-> <<>>,
     backtest_results |-> None, results |-> None, result |-> None,
     response |-> None]

\* NewRef, with one module-level object reused by every call.
NewRefSingleton(heap) == 1

\* A constructor call makes a new object: its reference is one no earlier
\* object has.
NewRef(heap) == Len(heap) + 1

Store(heap, ref, obj) ==
    IF ref \in DOMAIN heap THEN [heap EXCEPT ![ref] = obj] ELSE Append(heap, obj)

\* After, with an exception of the optimizer swallowed instead of reaching
\* the except clause.
AfterSwallowing(stage, raised) ==
    IF raised /\ stage # "optimize" THEN "returned"
    ELSE CASE stage = "portfolio" -> "loader"
           [] stage = "load" -> "optimize"
           [] stage = "optimize" -> "engine"
           [] stage = "engine" -> "results"
           [] stage = "results" -> "response"
           [] stage = "response" -> "returned"

\* Where control goes after a stage: to the except clause when it raised.
After(stage, raised) ==
    IF raised THEN "returned"
    ELSE CASE stage = "portfolio" -> "loader"
           [] stage = "load" -> "optimize"
           [] stage = "optimize" -> "engine"
           [] stage = "engine" -> "results"
           [] stage = "results" -> "response"
           [] stage = "response" -> "returned"

Event(stage, raised) == [stage |-> stage, raised |-> raised]

\* The locals after a stage of the try block ran: on an exception the except
\* clause returns the error result.
Ran(locals, stage, raised, e) ==
    [locals EXCEPT
        !.pc = After(stage, raised),
        !.trace = Append(@, Event(stage, raised)),
        !.result = IF raised THEN ErrorResult(e) ELSE @]

\* The arguments load_stock_data works with; a pipeline passes some and the
\* rest are the method's defaults.
LoadArgs(locals) ==
    IF locals.request.kind = "run-backtest"
    THEN [n_stocks |-> locals.args.n_stocks, stock_codes |-> <<>>,
          min_dividend |-> locals.args.min_dividend,
          min_liquidity |-> locals.args.min_liquidity,
          max_volatility |-> locals.args.max_volatility]
    ELSE [n_stocks |-> 5, stock_codes |-> locals.stock_codes,
          min_dividend |-> 2, min_liquidity |-> 500, max_volatility |-> 40]

(***************************************************************************)
(* Initial states.                                                         *)
(***************************************************************************)
InitWorld ==
    /\ feed = [c \in Codes |-> Unasked]
    /\ kospi = "unasked"
    /\ portfolios = <<>>
    /\ loaders = <<>>
    /\ run = [r \in Runs |-> Idle]

\* One run at a time, any request.
Init ==
    /\ InitWorld
    /\ workers = {"r1"}
    /\ clients = "any"
    /\ sources = "any"

\* Two runs in flight, a few requests.
InitConcurrent ==
    /\ InitWorld
    /\ workers = Runs
    /\ clients = "few"
    /\ sources = "few"

(***************************************************************************)
(* Actions.                                                                *)
(***************************************************************************)
\* An endpoint takes a request and calls its pipeline.  POST
\* /specific-backtest first computes the window, and raises HTTPException(500)
\* when get_end_date raises.
Start(r) ==
    /\ r \in workers
    /\ run[r].pc = "idle"
    /\ \E request \in Offered(clients) :
          run' = [run EXCEPT ![r] =
                     IF /\ request.kind = "specific-backtest"
                        /\ IllegalMonthError(request.backtesting_period.end_month)
                     THEN [@ EXCEPT !.pc = "answered",
                                    !.request = request,
                                    !.response =
                                        Raises(HTTPException(500,
                                            BacktestFailed
                                                \o <<": ", "bad month number">>))]
                     ELSE [@ EXCEPT !.pc = "portfolio",
                                    !.request = request,
                                    !.args = EndpointArgs(request)]]
    /\ UNCHANGED <<workers, clients, sources, feed, kospi, portfolios, loaders>>

\* portfolio = Portfolio(initial_capital=..., start_date=..., end_date=...)
NewPortfolio(r) ==
    /\ run[r].pc = "portfolio"
    /\ LET ref == NewRef(portfolios)
           a == run[r].args
       IN  /\ portfolios' = Store(portfolios, ref,
                                  Portfolio(a.initial_capital, a.start_date,
                                            a.end_date))
           /\ run' = [run EXCEPT ![r] = [@ EXCEPT !.pc = After("portfolio", FALSE),
                                                  !.portfolio = ref]]
    /\ UNCHANGED <<workers, clients, sources, feed, kospi, loaders>>

\* data_loader = DataLoader(db_path)
NewDataLoader(r) ==
    /\ run[r].pc = "loader"
    /\ LET made == DataLoaderInit(run[r].args.db_path)
           ref == NewRef(loaders)
       IN  IF made.raised
           THEN /\ run' = [run EXCEPT ![r] = [@ EXCEPT !.pc = "returned",
                                                   !.result = ErrorResult(made.error)]]
                /\ UNCHANGED loaders
           ELSE /\ loaders' = Store(loaders, ref, made.value)
                /\ run' = [run EXCEPT ![r] =
                              [@ EXCEPT !.data_loader = ref,
                                        !.pc = IF run[r].request.kind = "run-backtest"
                                               THEN "load" ELSE "names"]]
    /\ UNCHANGED <<workers, clients, sources, feed, kospi, portfolios>>

\* specific_backtest, lines 42 to 73: the codes of the requested names.
LookUpNames(r) ==
    /\ run[r].pc = "names"
    /\ LET found == ResolveStockNames(loaders[run[r].data_loader], run[r].args)
       IN  run' = [run EXCEPT ![r] =
                      IF found.raised
                      THEN [@ EXCEPT !.pc = "returned",
                                     !.result = ErrorResult(found.error)]
                      ELSE [@ EXCEPT !.pc = "load", !.stock_codes = found.value]]
    /\ UNCHANGED <<workers, clients, sources, feed, kospi, portfolios, loaders>>

\* data_loader.load_stock_data(portfolio=portfolio, ...)
LoadStockData(r) ==
    /\ run[r].pc = "load"
    /\ LET pref == run[r].portfolio
           lref == run[r].data_loader
           selected == SelectStockData(loaders[lref], LoadArgs(run[r]))
       IN  /\ loaders' = Store(loaders, lref, selected.loader)
           /\ IF selected.stock_data.raised
              THEN /\ run' = [run EXCEPT ![r] =
                                 Ran(@, "load", TRUE, selected.stock_data.error)]
                   /\ UNCHANGED <<feed, kospi, portfolios>>
              ELSE LET stock_data == selected.stock_data.value
                       asked == {stock_data[i].code : i \in DOMAIN stock_data}
                   IN  \E answers \in [asked -> PriceAnswers(sources)],
                          kospi_answer \in IndexAnswers(sources) :
                          /\ \A c \in asked :
                                feed[c] # Unasked => answers[c] = feed[c]
                          /\ kospi # "unasked" => kospi_answer = kospi
                          /\ LET stored == StorePrices(portfolios[pref], stock_data,
                                                       answers, kospi_answer)
                                 asked_kospi == DOMAIN ValidStocks(stock_data, answers) # {}
                             IN  /\ asked_kospi \/ kospi_answer = "data"
                                 /\ feed' = [c \in Codes |->
                                               IF c \in asked THEN answers[c]
                                               ELSE feed[c]]
                                 /\ kospi' = IF asked_kospi THEN kospi_answer ELSE kospi
                                 /\ portfolios' = Store(portfolios, pref, stored.portfolio)
                                 /\ run' = [run EXCEPT ![r] =
                                               Ran(@, "load", stored.raised, stored.error)]
    /\ UNCHANGED <<workers, clients, sources>>

\* optimizer.optimize(portfolio): returns or raises.
Optimize(r) ==
    /\ run[r].pc = "optimize"
    /\ \E raised \in BOOLEAN :
          /\ portfolios' = IF raised THEN portfolios
                           ELSE Store(portfolios, run[r].portfolio,
                                      Optimized(portfolios[run[r].portfolio]))
          /\ run' = [run EXCEPT ![r] = Ran(@, "optimize", raised, "optimizer failed")]
    /\ UNCHANGED <<workers, clients, sources, feed, kospi, loaders>>

\* backtest_results = engine.run(): returns or raises.
EngineRun(r) ==
    /\ run[r].pc = "engine"
    /\ \E raised \in BOOLEAN :
          run' = [run EXCEPT ![r] =
                     [Ran(@, "engine", raised, "engine failed") EXCEPT
                         !.backtest_results =
                             IF raised THEN @
                             ELSE BacktestResults(portfolios[run[r].portfolio])]]
    /\ UNCHANGED <<workers, clients, sources, feed, kospi, portfolios, loaders>>

\* results = visualizer.generate_results(backtest_results): returns or raises.
Visualize(r) ==
    /\ run[r].pc = "results"
    /\ \E raised \in BOOLEAN :
          run' = [run EXCEPT ![r] =
                     [Ran(@, "results", raised, "visualizer failed") EXCEPT
                         !.results =
                             IF raised THEN @
                             ELSE GenerateResults(portfolios[run[r].portfolio],
                                                  run[r].backtest_results)]]
    /\ UNCHANGED <<workers, clients, sources, feed, kospi, portfolios, loaders>>

\* response_data = BacktestResponse(...); return response_data.  The
\* constructors validate their arguments and may raise.
Respond(r) ==
    /\ run[r].pc = "response"
    /\ \E raised \in BOOLEAN :
          run' = [run EXCEPT ![r] =
                     [Ran(@, "response", raised, "validation failed") EXCEPT
                         !.result = IF raised THEN @
                                    ELSE BacktestResponse(run[r].results)]]
    /\ UNCHANGED <<workers, clients, sources, feed, kospi, portfolios, loaders>>

\* POST /condition: the handler validates the condition and answers.
PostCondition(r) ==
    /\ r \in workers
    /\ run[r].pc = "idle"
    /\ \E request \in OfferedConditions(clients) :
          LET out == create_condition(request.condition)
          IN  run' = [run EXCEPT ![r] =
                         [@ EXCEPT !.pc = "answered",
                                   !.request = request,
                                   !.response =
                                       IF out.status_code = 200 THEN Returns(out)
                                       ELSE Raises(out)]]
    /\ UNCHANGED <<workers, clients, sources, feed, kospi, portfolios, loaders>>

\* A caller constructs a DataLoader: DataLoader(db_path).
ConstructDataLoader(r) ==
    /\ r \in workers
    /\ run[r].pc = "idle"
    /\ \E db_path \in OfferedDbPaths(clients) :
          LET made == DataLoaderInit(db_path)
          IN  run' = [run EXCEPT ![r] =
                         [@ EXCEPT !.pc = "answered",
                                   !.request = [kind |-> "DataLoader",
                                                db_path |-> db_path],
                                   !.response =
                                       IF made.raised THEN Raises(made.error)
                                       ELSE Returns(made.value)]]
    /\ UNCHANGED <<workers, clients, sources, feed, kospi, portfolios, loaders>>

\* The endpoint answers with what its pipeline returned.
EndpointReturn(r) ==
    /\ run[r].pc = "returned"
    /\ run[r].response = None
    /\ run' = [run EXCEPT ![r] =
                  [@ EXCEPT !.response =
                      EndpointResponse(run[r].request, run[r].result)]]
    /\ UNCHANGED <<workers, clients, sources, feed, kospi, portfolios, loaders>>

Next ==
    \E r \in Runs :
        \/ Start(r)
        \/ NewPortfolio(r)
        \/ NewDataLoader(r)
        \/ LookUpNames(r)
        \/ LoadStockData(r)
        \/ Optimize(r)
        \/ EngineRun(r)
        \/ Visualize(r)
        \/ Respond(r)
        \/ EndpointReturn(r)
        \/ PostCondition(r)
        \/ ConstructDataLoader(r)

Spec == Init /\ [][Next]_vars

SpecConcurrent == InitConcurrent /\ [][Next]_vars

(***************************************************************************)
(* What the claims speak of.                                               *)
(***************************************************************************)
IsPrefix(s, t) == Len(s) <= Len(t) /\ SubSeq(t, 1, Len(s)) = s

StagesRun(r) == [i \in DOMAIN run[r].trace |-> run[r].trace[i].stage]

\* Every stage of the pipeline ran and returned.
Completed(r) ==
    /\ StagesRun(r) = Pipeline
    /\ \A i \in DOMAIN run[r].trace : ~ run[r].trace[i].raised

Returned(r) == run[r].pc = "returned"

IsErrorResult(result) == "error" \in DOMAIN result

IsResponse(result) == "portfolio" \in DOMAIN result

\* C1: in every run the stages execute in the order load, optimize, engine,
\* results (then the response is built), each at most once, and after a
\* stage that raised no further stage is executed.
C1_StagesInOrderAndAbortOnRaise ==
    \A r \in Runs :
        /\ IsPrefix(StagesRun(r), Pipeline)
        /\ \A i \in DOMAIN run[r].trace :
              run[r].trace[i].raised => i = Len(run[r].trace)

\* A run whose engine raised after load and optimize returned.
C1_Witness ==
    \E r \in Runs :
        /\ Returned(r)
        /\ StagesRun(r) = <<"load", "optimize", "engine">>
        /\ run[r].trace[3].raised

IsScreening(r) == run[r].pc # "idle" /\ run[r].request.kind = "run-backtest"

\* load_stock_data was called, and it raised.
LoadRan(r) == run[r].trace # <<>>
LoadRaised(r) == run[r].trace[1].raised

\* What _load_db_data gave the run's load_stock_data.
Screened(r) ==
    _load_db_data(run[r].args.n_stocks, run[r].args.min_dividend,
                  run[r].args.min_liquidity, run[r].args.max_volatility)

CandidateCodes(r) ==
    {Screened(r).value[i].code : i \in DOMAIN Screened(r).value}

\* The price source gave a usable series: a non-empty frame with a Close
\* column and no missing value in it.
Usable(answer) ==
    /\ answer.kind = "frame"
    /\ answer.index # {}
    /\ answer.has_close
    /\ \A d \in answer.index : answer.Close[d] = "px"

Survivors(r) == {c \in CandidateCodes(r) : Usable(feed[c])}

PortfolioOf(r) == portfolios[run[r].portfolio]

\* C3: no stage of the pipeline is started for a POST /run-backtest request
\* whose condition the validation of POST /condition rejects.
C3_OnlyValidConditionsReachTheCore ==
    \A r \in Runs :
        (IsScreening(r) /\ LoadRan(r))
            => create_condition(run[r].request.condition).status_code = 200

\* C4: load_stock_data drops exactly the instruments whose price fetch
\* failed; it raises "no valid price data" exactly when none survives, and
\* returns whenever one survives and the benchmark is available.
C4_FetchFailuresAreDropped ==
    \A r \in Runs :
        (IsScreening(r) /\ LoadRan(r) /\ ~ Screened(r).raised) =>
            /\ Survivors(r) = {} <=>
                  /\ LoadRaised(r)
                  /\ run[r].result.error = "ValueError: no valid price data"
            /\ Survivors(r) = {} => PortfolioOf(r).stock_prices = None
            /\ Survivors(r) # {} =>
                  PortfolioOf(r).stock_prices.columns = Survivors(r)
            /\ LoadRaised(r) <=> (Survivors(r) = {} \/ kospi # "data")

\* A load that returned with one of two candidates dropped.
C4_Witness ==
    \E r \in Runs :
        /\ IsScreening(r) /\ LoadRan(r) /\ ~ LoadRaised(r)
        /\ Cardinality(CandidateCodes(r)) = 2
        /\ Cardinality(Survivors(r)) = 1

\* C5: after a load that returned, the price table has no missing value (its
\* columns share one index by construction of the table).
C5_NoMissingValueAfterLoad ==
    \A r \in Runs :
        (IsScreening(r) /\ LoadRan(r) /\ ~ LoadRaised(r)) =>
            \A c \in PortfolioOf(r).stock_prices.columns :
                /\ DOMAIN PortfolioOf(r).stock_prices.at[c]
                      = PortfolioOf(r).stock_prices.index
                /\ \A d \in PortfolioOf(r).stock_prices.index :
                      PortfolioOf(r).stock_prices.at[c][d] # "NaN"

\* C6: after a load that returned, the codes of stock_info are the columns
\* of stock_prices.
C6_InfoCodesArePriceColumns ==
    \A r \in Runs :
        (IsScreening(r) /\ LoadRan(r) /\ ~ LoadRaised(r)) =>
            /\ PortfolioOf(r).stock_prices # None
            /\ PortfolioOf(r).stock_info # None
            /\ {PortfolioOf(r).stock_info.rows[i].code :
                   i \in DOMAIN PortfolioOf(r).stock_info.rows}
                  = PortfolioOf(r).stock_prices.columns

\* A load that returned after dropping a candidate.
C6_Witness ==
    \E r \in Runs :
        /\ IsScreening(r) /\ LoadRan(r) /\ ~ LoadRaised(r)
        /\ Len(PortfolioOf(r).stock_info.rows) = 1
        /\ Cardinality(CandidateCodes(r)) = 2

\* Row satisfies the screening filter of the run.
Passes(r, row) ==
    /\ row.dividend_yield >= run[r].args.min_dividend
    /\ row.liquidity >= run[r].args.min_liquidity * 1000000
    /\ row.volatility <= run[r].args.max_volatility

\* C7: _load_db_data returns at most n rows, all satisfying the filter,
\* ordered by annual_return descending, none of the rows left out ranking
\* above a returned one, and raises when no row satisfies the filter.
C7_ScreeningReturnsTopN ==
    \A r \in Runs :
        (IsScreening(r) /\ LoadRan(r)) =>
            LET out == Screened(r)
                passing == {i \in DOMAIN stock_analysis :
                               Passes(r, stock_analysis[i])}
            IN  /\ passing = {} => out.raised
                /\ ~ out.raised =>
                      /\ Len(out.value) <= run[r].args.n_stocks
                      /\ \A i \in DOMAIN out.value : Passes(r, out.value[i])
                      /\ \A i, j \in DOMAIN out.value :
                            i < j => out.value[i].annual_return
                                        >= out.value[j].annual_return
                      /\ \A k \in passing :
                            stock_analysis[k] \notin Range(out.value) =>
                                \A i \in DOMAIN out.value :
                                    out.value[i].annual_return
                                        >= stock_analysis[k].annual_return

\* C8: when prices were loaded and the benchmark source has no data (or
\* raises), load_stock_data raises, no later stage runs and the run returns
\* an error.
C8_MissingBenchmarkIsFatal ==
    \A r \in Runs :
        (/\ IsScreening(r) /\ LoadRan(r) /\ ~ Screened(r).raised
         /\ Survivors(r) # {}
         /\ kospi \in {"empty", "raise"}) =>
            /\ LoadRaised(r)
            /\ StagesRun(r) = <<"load">>
            /\ Returned(r)
            /\ IsErrorResult(run[r].result)
            /\ PortfolioOf(r).weights = None
            /\ run[r].backtest_results = None
            /\ run[r].results = None

\* Every candidate's prices were loaded, the benchmark was empty, and the
\* run returned an error.
C8_Witness ==
    \E r \in Runs :
        /\ IsScreening(r) /\ LoadRan(r) /\ ~ Screened(r).raised
        /\ Cardinality(Survivors(r)) = 2
        /\ Survivors(r) = CandidateCodes(r)
        /\ kospi = "empty"
        /\ Returned(r) /\ IsErrorResult(run[r].result)

\* C10: the field names of a success response are exactly those of the
\* external schema.  The chart payloads, which the schema leaves to the
\* visualizer, are not counted among the top-level fields.
C10_ResponseFieldNames ==
    \A r \in Runs :
        (Returned(r) /\ IsResponse(run[r].result)) =>
            /\ DOMAIN run[r].result \ {"visualizations"}
                  = {"portfolio", "benchmark", "individual_stocks"}
            /\ DOMAIN run[r].result.portfolio
                  = {"composition", "final_value", "total_return",
                     "annual_volatility", "sharpe_ratio", "max_drawdown",
                     "win_rate"}
            /\ \A i \in DOMAIN run[r].result.portfolio.composition :
                  DOMAIN run[r].result.portfolio.composition[i]
                      = {"code", "name", "weight", "dividend_yield"}
            /\ DOMAIN run[r].result.benchmark
                  = {"final_value", "total_return", "annual_volatility"}
            /\ \A i \in DOMAIN run[r].result.individual_stocks :
                  DOMAIN run[r].result.individual_stocks[i]
                      = {"code", "name", "return", "volatility"}

(***************************************************************************)
(* A run taken alone: what its objects and its result are, as a function   *)
(* of its own request, of how far it got, and of the answers of the data   *)
(* sources.                                                                *)
(***************************************************************************)
StageReturned(r, stage) ==
    \E i \in DOMAIN run[r].trace :
        run[r].trace[i].stage = stage /\ ~ run[r].trace[i].raised

AloneLoader(r) ==
    LET made == DataLoaderInit(run[r].args.db_path).value
    IN  IF LoadRan(r) THEN SelectStockData(made, LoadArgs(run[r])).loader
        ELSE made

AlonePortfolio(r) ==
    LET a == run[r].args
        made == Portfolio(a.initial_capital, a.start_date, a.end_date)
        selected == SelectStockData(DataLoaderInit(a.db_path).value,
                                    LoadArgs(run[r]))
        loaded == StorePrices(made, selected.stock_data.value, feed, kospi).portfolio
    IN  IF ~ LoadRan(r) \/ selected.stock_data.raised THEN made
        ELSE IF StageReturned(r, "optimize") THEN Optimized(loaded)
        ELSE loaded

AloneResult(r) ==
    IF Completed(r)
    THEN BacktestResponse(
             GenerateResults(AlonePortfolio(r), BacktestResults(AlonePortfolio(r))))
    ELSE IF ~ LoadRan(r)
    THEN ErrorResult(ResolveStockNames(AloneLoader(r), run[r].args).error)
    ELSE LET last == run[r].trace[Len(run[r].trace)].stage
             selected == SelectStockData(DataLoaderInit(run[r].args.db_path).value,
                                         LoadArgs(run[r])).stock_data
         IN  ErrorResult(
                 CASE last = "load" ->
                        IF selected.raised THEN selected.error
                        ELSE StorePrices(AlonePortfolio(r), selected.value,
                                         feed, kospi).error
                   [] last = "optimize" -> "optimizer failed"
                   [] last = "engine" -> "engine failed"
                   [] last = "results" -> "visualizer failed"
                   [] last = "response" -> "validation failed")

\* C9: two runs in flight share no object: the Portfolio and the DataLoader
\* of a run are referenced by that run only, they hold at every moment what
\* the run alone would have written, and the run returns what it would
\* return alone.
C9_RunsShareNoState ==
    \A r \in Runs :
        /\ \A s \in Runs \ {r} :
              /\ run[r].portfolio # 0 => run[r].portfolio # run[s].portfolio
              /\ run[r].data_loader # 0 => run[r].data_loader # run[s].data_loader
        /\ run[r].portfolio # 0 => PortfolioOf(r) = AlonePortfolio(r)
        /\ run[r].data_loader # 0 => loaders[run[r].data_loader] = AloneLoader(r)
        /\ Returned(r) => run[r].result = AloneResult(r)

\* Both runs in flight past their load, holding different instruments, one
\* of them already optimized.
C9_Witness ==
    /\ run["r1"].pc = "engine"
    /\ run["r2"].pc = "optimize"
    /\ PortfolioOf("r1").stock_prices.columns
          # PortfolioOf("r2").stock_prices.columns
    /\ PortfolioOf("r1").weights # None
    /\ PortfolioOf("r2").weights = None

(***************************************************************************)
(* The answers of the endpoints.                                           *)
(***************************************************************************)
Answered(r) == run[r].response # None

\* C11: when the pipeline returned its error result, the endpoint raises
\* HTTPException with status 500 and a detail that begins with the failure
\* message; it never returns the error dictionary.
C11_PipelineErrorBecomesHTTP500 ==
    \A r \in Runs :
        (Answered(r) /\ run[r].result # None /\ IsErrorResult(run[r].result)) =>
            /\ run[r].response.kind = "raise"
            /\ run[r].response.exception.status_code = 500
            /\ startswith(run[r].response.exception.detail, BacktestFailed)

(***************************************************************************)
(* The name lookup of POST /specific-backtest.                             *)
(***************************************************************************)
IsSpecific(r) ==
    run[r].pc # "idle" /\ run[r].request.kind = "specific-backtest"

\* The run is past its name lookup.
LookedUp(r) ==
    IsSpecific(r) /\ run[r].data_loader # 0 /\ run[r].pc # "names"

TableNames == {stock_analysis[i].name : i \in DOMAIN stock_analysis}

\* C12: specific_backtest goes on to load prices exactly when every
\* requested name is in stock_analysis; otherwise it fails with an error
\* that names the requested names not found, a non-empty set.
C12_NamesFoundOrNamedMissing ==
    \A r \in Runs :
        LookedUp(r) =>
            LET names == Range(run[r].args.stock_names)
                found == ResolveStockNames(loaders[run[r].data_loader],
                                           run[r].args)
            IN  /\ names \subseteq TableNames
                      <=> (run[r].pc = "load" \/ LoadRan(r))
                /\ ~ (names \subseteq TableNames) =>
                      /\ Returned(r)
                      /\ run[r].result = ErrorResult(found.error)
                      /\ "missing_stocks" \in DOMAIN found
                      /\ found.missing_stocks = names \ TableNames
                      /\ found.missing_stocks # {}

(***************************************************************************)
(* POST /condition.                                                        *)
(***************************************************************************)
IsCondition(r) == run[r].pc # "idle" /\ run[r].request.kind = "condition"

Rejected(r, detail) ==
    /\ run[r].response.kind = "raise"
    /\ run[r].response.exception.status_code = 400
    /\ run[r].response.exception.detail = detail

\* C13: a condition that is valid up to its start month, with a start year
\* in range and an end year after the current year, is rejected with the
\* end-year message; the start-year message is given only when the start
\* year itself is out of range.
C13_EndYearMessage ==
    \A r \in Runs :
        IsCondition(r) =>
            LET c == run[r].request.condition
                p == c.backtesting_period
            IN  /\ (/\ c.n_stock > 0 /\ c.min_dividend > 0
                     /\ c.investment_style \in Styles
                     /\ 1966 <= p.start_year /\ p.start_year <= current_year
                     /\ p.start_month \in 1 .. 12
                     /\ p.end_year > current_year)
                      => Rejected(r, "The end year is not valid.")
                /\ Rejected(r, "The start year is not valid.")
                      => (p.start_year < 1966 \/ p.start_year > current_year)

IsConstruction(r) == run[r].pc # "idle" /\ run[r].request.kind = "DataLoader"

\* C15: a db_path that starts with postgresql:// or with sqlite:/// is kept
\* as it is, one that ends in .db or starts with / gets sqlite:/// in front,
\* any other is rejected; and constructing a DataLoader from the db_path of
\* a DataLoader gives that db_path again.
C15_NormalisationIsIdempotent ==
    \A r \in Runs :
        IsConstruction(r) =>
            LET p == run[r].request.db_path
                out == run[r].response
            IN  /\ IF \/ startswith(p, <<"postgresql://">>)
                      \/ startswith(p, <<"sqlite:///">>)
                   THEN out = Returns([db_path |-> p])
                   ELSE IF endswith(p, <<".db">>) \/ startswith(p, <<"/">>)
                   THEN out = Returns([db_path |-> <<"sqlite:///">> \o p])
                   ELSE out.kind = "raise"
                /\ out.kind = "return" =>
                      DataLoaderInit(out.body.db_path) = Return(out.body)

(***************************************************************************)
(* The window of POST /specific-backtest.                                  *)
(***************************************************************************)
\* YYYY, MM and DD, zero-padded.
Padded4(n) ==
    <<Digit((n \div 1000) % 10), Digit((n \div 100) % 10),
      Digit((n \div 10) % 10), Digit(n % 10)>>
Padded2(n) == <<Digit((n \div 10) % 10), Digit(n % 10)>>

\* The last calendar day of a month.
LastDay(year, month) ==
    CASE month \in {1, 3, 5, 7, 8, 10, 12} -> 31
      [] month \in {4, 6, 9, 11} -> 30
      [] month = 2 /\ year % 400 = 0 -> 29
      [] month = 2 /\ year % 400 # 0 /\ year % 100 = 0 -> 28
      [] month = 2 /\ year % 100 # 0 /\ year % 4 = 0 -> 29
      [] OTHER -> 28

\* C16: POST /specific-backtest calls the pipeline with start_date the first
\* day of (start_year, start_month) and end_date the last calendar day of
\* (end_year, end_month), both as zero-padded YYYY-MM-DD, for every year and
\* every month in 1..12.
C16_WindowOfTheRequest ==
    \A r \in Runs :
        LET p == run[r].request.backtesting_period
        IN  (/\ IsSpecific(r)
             /\ p.start_month \in 1 .. 12
             /\ p.end_month \in 1 .. 12) =>
                /\ run[r].args # None
                /\ run[r].args.start_date
                      = Padded4(p.start_year) \o <<"-">>
                            \o Padded2(p.start_month) \o <<"-", "0", "1">>
                /\ run[r].args.end_date
                      = Padded4(p.end_year) \o <<"-">>
                            \o Padded2(p.end_month) \o <<"-">>
                            \o Padded2(LastDay(p.end_year, p.end_month))

(***************************************************************************)
(* What a call of load_stock_data does to the portfolio it is given.       *)
(***************************************************************************)
\* The step is a call of load_stock_data by run r.
LoadStep(r) == run[r].pc = "load" /\ run'[r].pc # "load"

\* C17: a call of load_stock_data that raises leaves stock_prices,
\* stock_info and benchmark of the portfolio as they were before the call;
\* a call that returns has set all three.
C17_LoadIsAllOrNothing ==
    [][\A r \in Runs :
          LoadStep(r) =>
              LET before == portfolios[run[r].portfolio]
                  after == portfolios'[run[r].portfolio]
              IN  IF run'[r].trace[1].raised
                  THEN /\ after.stock_prices = before.stock_prices
                       /\ after.stock_info = before.stock_info
                       /\ after.benchmark = before.benchmark
                  ELSE /\ after.stock_prices # None
                       /\ after.stock_info # None
                       /\ after.benchmark # None]_vars

(***************************************************************************)
(* What POST /run-backtest takes from its request.                         *)
(***************************************************************************)
\* Two requests that differ at most in the period and the style of their
\* condition.
DifferOnlyInPeriodOrStyle(q, s) ==
    /\ q.kind = s.kind
    /\ q.condition.n_stock = s.condition.n_stock
    /\ q.condition.min_dividend = s.condition.min_dividend
    /\ q.max_volatility = s.max_volatility
    /\ q.target_return = s.target_return

\* C18: POST /run-backtest calls run_backtest_api with the same arguments
\* for any two requests that differ only in the period or the style: the
\* window is 2020-01-01 to 2023-12-31 and the capital, the weight bounds and
\* the risk-free rate are the defaults.
C18_PeriodAndStyleAreIgnored ==
    \A r \in Runs :
        IsScreening(r) =>
            /\ \A q \in BacktestRequests :
                  DifferOnlyInPeriodOrStyle(q, run[r].request)
                      => RunBacktestArgs(q) = run[r].args
            /\ run[r].args.start_date
                  = <<"2", "0", "2", "0", "-", "0", "1", "-", "0", "1">>
            /\ run[r].args.end_date
                  = <<"2", "0", "2", "3", "-", "1", "2", "-", "3", "1">>
            /\ run[r].args.initial_capital = 100000000
            /\ run[r].args.min_weight = 5
            /\ run[r].args.max_weight = 90
            /\ run[r].args.risk_free_rate = 3

\* A request for another period and an unknown style whose prices were
\* loaded.
C18_Witness ==
    \E r \in Runs :
        /\ IsScreening(r) /\ LoadRan(r) /\ ~ LoadRaised(r)
        /\ run[r].request.condition.backtesting_period = Period(2023, 6, 2020, 13)
        /\ run[r].request.condition.investment_style = "unknown"
        /\ PortfolioOf(r).start_date = DefaultStartDate

====
